---- MODULE Spec2Model ----
(***************************************************************************)
(* Startup-latency benchmark: the top-level script that provisions a       *)
(* temporary Actor (create, publish version 0.0, build), runs it in one    *)
(* batch per memory configuration, scrapes the timing markers out of the   *)
(* run logs, pushes one record per configuration and deletes the Actor.    *)
(***************************************************************************)
EXTENDS Integers, Sequences, FiniteSets, TLC

(***************************************************************************)
(* Bounds of the model.                                                    *)
(***************************************************************************)
\* restarts of the process after a crash or a fatal error
MaxRestarts == 2
\* largest iterationsPerConfig drawn
MaxIter == 2
\* longest memoryConfigs drawn
MaxConfigs == 2
\* largest iterationsPerConfig drawn where a single batch is followed
MaxSamples == 3
\* most keys of dependenciesJson, and most entries of dynamicDependencies, drawn where
\* the generated files are followed
MaxDeps == 2
\* most entries of a template archive drawn
MaxEntries == 3

NoVal == "undefined"        \* JavaScript undefined (an unset field of the state)

(***************************************************************************)
(* Text.  A line is a sequence of one-character strings, a log is a        *)
(* sequence of lines (runLog.split('\n')).                                 *)
(***************************************************************************)
StartupMarker == <<"s", "t", "a", "r", "t", "u", "p", ":">>
DynamicMarker == <<"d", "y", "n", "a", "m", "i", "c", " ", "i", "m", "p", "o", "r", "t", "s", " ",
                   "d", "o", "n", "e", ":">>

Digits == {"0", "1", "2", "3", "4", "5", "6", "7", "8", "9"}
Spaces == {" ", "\t"}

DigitVal(c) ==
    CASE c = "0" -> 0 [] c = "1" -> 1 [] c = "2" -> 2 [] c = "3" -> 3 [] c = "4" -> 4
      [] c = "5" -> 5 [] c = "6" -> 6 [] c = "7" -> 7 [] c = "8" -> 8 [] c = "9" -> 9

\* pat occurs in line at position i
HasAt(line, pat, i) ==
    /\ i + Len(pat) - 1 <= Len(line)
    /\ \A k \in 1..Len(pat) : line[i + k - 1] = pat[k]

\* variant: every line that has text counts as a hit, like includes('')
IncludesAnything(line, pat) == Len(line) > 0

\* line.includes(pat)
Includes(line, pat) == \E i \in 1..Len(line) : HasAt(line, pat, i)

\* variant: the last line that includes pat is taken
FindLineLast(lines, pat) ==
    LET hits == {i \in 1..Len(lines) : Includes(lines[i], pat)}
    IN  IF hits = {} THEN 0 ELSE CHOOSE i \in hits : \A j \in hits : i >= j

\* lines.find((line) => line.includes(pat)): the index of the first such line,
\* 0 when find returns undefined
FindLine(lines, pat) ==
    LET hits == {i \in 1..Len(lines) : Includes(lines[i], pat)}
    IN  IF hits = {} THEN 0 ELSE CHOOSE i \in hits : \A j \in hits : i <= j

\* first position >= i of line that holds no character of set cs (Len+1 when none)
RECURSIVE SkipWhile(_, _, _)
SkipWhile(line, cs, i) ==
    IF i <= Len(line) /\ line[i] \in cs THEN SkipWhile(line, cs, i + 1) ELSE i

(***************************************************************************)
(* Numbers.  A parsed timestamp is the exact rational it denotes, kept in  *)
(* lowest terms; the statistics are rationals too.  The three values the   *)
(* arithmetic produces on an empty sample array have denominator 0.        *)
(***************************************************************************)
NaN    == [num |-> 0, den |-> 0]     \* 0 / 0
PosInf == [num |-> 1, den |-> 0]     \* Math.min()
NegInf == [num |-> -1, den |-> 0]    \* Math.max()

RECURSIVE Gcd(_, _)
Gcd(a, b) == IF b = 0 THEN a ELSE Gcd(b, a % b)

Rat(n, d) == LET g == Gcd(n, d) IN [num |-> n \div g, den |-> d \div g]

RatAdd(a, b) == Rat(a.num * b.den + b.num * a.den, a.den * b.den)
RatDivInt(a, k) == Rat(a.num, a.den * k)
RatLeq(a, b) == a.num * b.den <= b.num * a.den
RatLess(a, b) == a.num * b.den < b.num * a.den

RECURSIVE Pow10(_)
Pow10(k) == IF k = 0 THEN 1 ELSE 10 * Pow10(k - 1)

\* value of the digit string line[i..j-1] read as a decimal integer
RECURSIVE DigitsVal(_, _, _)
DigitsVal(line, i, j) ==
    IF i >= j THEN 0 ELSE DigitsVal(line, i, j - 1) * 10 + DigitVal(line[j - 1])

(***************************************************************************)
(* line.match(/<marker>\s*(\d+(\.\d+)?)/): the leftmost position at which  *)
(* the marker, optional white space and at least one digit follow one      *)
(* another; Number(match[1]) is the captured decimal.                      *)
(***************************************************************************)
MatchesAt(line, marker, i) ==
    /\ HasAt(line, marker, i)
    /\ LET d == SkipWhile(line, Spaces, i + Len(marker))
       IN  d <= Len(line) /\ line[d] \in Digits

\* Number(match[1]) for the match starting at i
CaptureAt(line, marker, i) ==
    LET d  == SkipWhile(line, Spaces, i + Len(marker))
        e  == SkipWhile(line, Digits, d)
        fr == IF e + 1 <= Len(line) /\ line[e] = "." /\ line[e + 1] \in Digits
              THEN SkipWhile(line, Digits, e + 1) ELSE e
    IN  IF fr = e THEN Rat(DigitsVal(line, d, e), 1)
        ELSE Rat(DigitsVal(line, d, e) * Pow10(fr - e - 1) + DigitsVal(line, e + 1, fr),
                 Pow10(fr - e - 1))

\* line.match(...) is not null
HasMatch(line, marker) == \E i \in 1..Len(line) : MatchesAt(line, marker, i)

\* Number(match[1]) of a line that matches
MatchNumber(line, marker) ==
    LET hits == {i \in 1..Len(line) : MatchesAt(line, marker, i)}
    IN  CaptureAt(line, marker, CHOOSE i \in hits : \A j \in hits : i <= j)

(***************************************************************************)
(* Statistics of one sample array, as the loop body computes them.         *)
(***************************************************************************)
RECURSIVE Sum(_)
Sum(s) == IF s = <<>> THEN Rat(0, 1) ELSE RatAdd(s[1], Sum(Tail(s)))

\* insert x into the ascending sequence s
RECURSIVE Insert(_, _)
Insert(x, s) ==
    IF s = <<>> THEN <<x>>
    ELSE IF RatLeq(x, s[1]) THEN <<x>> \o s ELSE <<s[1]>> \o Insert(x, Tail(s))

\* times.slice().sort((a, b) => a - b)
RECURSIVE Sorted(_)
Sorted(s) == IF s = <<>> THEN <<>> ELSE Insert(s[1], Sorted(Tail(s)))

\* times.reduce((a, b) => a + b, 0) / times.length
Mean(times) == IF times = <<>> THEN NaN ELSE RatDivInt(Sum(times), Len(times))

\* variant: the middle of the array as the runs delivered it, no sort
MedianUnsorted(times) ==
    LET sorted == times
        n      == Len(sorted)
    IN  IF n = 0 THEN NaN
        ELSE IF n % 2 = 0
             THEN RatDivInt(RatAdd(sorted[n \div 2], sorted[n \div 2 + 1]), 2)
             ELSE sorted[n \div 2 + 1]

\* the middle of the sorted copy (0-based indices length/2 - 1 and length/2, or floor(length/2))
Median(times) ==
    LET sorted == Sorted(times)
        n      == Len(sorted)
    IN  IF n = 0 THEN NaN
        ELSE IF n % 2 = 0
             THEN RatDivInt(RatAdd(sorted[n \div 2], sorted[n \div 2 + 1]), 2)
             ELSE sorted[n \div 2 + 1]

\* Math.min(...times)
Min(times) ==
    IF times = <<>> THEN PosInf
    ELSE times[CHOOSE i \in 1..Len(times) : \A j \in 1..Len(times) : RatLeq(times[i], times[j])]

\* Math.max(...times)
Max(times) ==
    IF times = <<>> THEN NegInf
    ELSE times[CHOOSE i \in 1..Len(times) : \A j \in 1..Len(times) : RatLeq(times[j], times[i])]

\* variant: the record is labelled with the first configuration instead of the current one
AggregateRecordFirstConfig(inp, memoryMbs, startupTimes, dynamicImportTimes) ==
    LET base == [median           |-> Median(startupTimes),
                 mean             |-> Mean(startupTimes),
                 min              |-> Min(startupTimes),
                 max              |-> Max(startupTimes),
                 memoryMbs        |-> inp.memoryConfigs[1],
                 iterations       |-> inp.iterationsPerConfig,
                 allStartupTimes  |-> startupTimes,
                 dependenciesJson |-> inp.dependenciesJson]
        dynamicImportBreakdown ==
                [dynMean   |-> Mean(dynamicImportTimes),
                 dynMedian |-> Median(dynamicImportTimes),
                 dynMin    |-> Min(dynamicImportTimes),
                 dynMax    |-> Max(dynamicImportTimes)]
    IN  IF Len(dynamicImportTimes) > 0 THEN base @@ dynamicImportBreakdown ELSE base

\* the object handed to Actor.pushData
AggregateRecord(inp, memoryMbs, startupTimes, dynamicImportTimes) ==
    LET base == [median           |-> Median(startupTimes),
                 mean             |-> Mean(startupTimes),
                 min              |-> Min(startupTimes),
                 max              |-> Max(startupTimes),
                 memoryMbs        |-> memoryMbs,
                 iterations       |-> inp.iterationsPerConfig,
                 allStartupTimes  |-> startupTimes,
                 dependenciesJson |-> inp.dependenciesJson]
        dynamicImportBreakdown ==
                [dynMean   |-> Mean(dynamicImportTimes),
                 dynMedian |-> Median(dynamicImportTimes),
                 dynMin    |-> Min(dynamicImportTimes),
                 dynMax    |-> Max(dynamicImportTimes)]
    IN  IF Len(dynamicImportTimes) > 0 THEN base @@ dynamicImportBreakdown ELSE base

(***************************************************************************)
(* Template materialisation: the files of version 0.0.                     *)
(***************************************************************************)
InSeq(x, s) == \E i \in 1..Len(s) : s[i] = x

\* variant: every key of dependenciesJson is imported statically
MainTsNoFilter(inp) ==
    LET keys    == [i \in 1..Len(inp.dependenciesJson) |-> inp.dependenciesJson[i].name]
        head    == [i \in 1..Len(keys) |-> [stmt |-> "import", pkg |-> keys[i]]]
                   \o <<[stmt |-> "import", pkg |-> "perf_hooks"],
                        [stmt |-> "log", pkg |-> "startup:"]>>
        dyn     == [i \in 1..Len(inp.dynamicDependencies) |->
                        [stmt |-> "await import", pkg |-> inp.dynamicDependencies[i]]]
                   \o <<[stmt |-> "log", pkg |-> "dynamic imports done:"]>>
    IN  IF Len(inp.dynamicDependencies) > 0 THEN head \o dyn ELSE head

\* the statements of the generated src/main.ts, in file order
MainTs(inp) ==
    LET keys    == [i \in 1..Len(inp.dependenciesJson) |-> inp.dependenciesJson[i].name]
        IsStatic(pkg) == ~InSeq(pkg, inp.dynamicDependencies)
        statics == SelectSeq(keys, IsStatic)
        head    == [i \in 1..Len(statics) |-> [stmt |-> "import", pkg |-> statics[i]]]
                   \o <<[stmt |-> "import", pkg |-> "perf_hooks"],
                        [stmt |-> "log", pkg |-> "startup:"]>>
        dyn     == [i \in 1..Len(inp.dynamicDependencies) |->
                        [stmt |-> "await import", pkg |-> inp.dynamicDependencies[i]]]
                   \o <<[stmt |-> "log", pkg |-> "dynamic imports done:"]>>
    IN  IF Len(inp.dynamicDependencies) > 0 THEN head \o dyn ELSE head

\* the source files sent with the version update
SourceFiles(inp) ==
    [packageJson |-> [dependencies |-> inp.dependenciesJson,
                      ncc          |-> IF inp.bundleWithNcc THEN "0.38.4" ELSE NoVal,
                      build        |-> IF inp.bundleWithNcc
                                       THEN "ncc build src/main.ts -m -o dist" ELSE "tsc"],
     Dockerfile  |-> IF inp.bundleWithNcc THEN "dist/index.js" ELSE "dist/main.js",
     mainTs      |-> MainTs(inp)]

(***************************************************************************)
(* Inputs and run logs drawn by the model.                                 *)
(***************************************************************************)
Mem128 == <<"1", "2", "8">>
Mem256 == <<"2", "5", "6">>
MemPool == {Mem128, Mem256}

\* dependenciesJson in key order, bundleWithNcc, dynamicDependencies (absent = empty:
\* the script treats undefined and [] alike)
DepCases ==
    { [dependenciesJson    |-> <<[name |-> "a", version |-> "*"]>>,
       bundleWithNcc       |-> FALSE,
       dynamicDependencies |-> <<>>],
      [dependenciesJson    |-> <<[name |-> "a", version |-> "*"], [name |-> "b", version |-> "*"]>>,
       bundleWithNcc       |-> TRUE,
       dynamicDependencies |-> <<"b">>] }

SeqsUpTo(S, n) == UNION {[1..k -> S] : k \in 0..n}

Inputs ==
    { [dependenciesJson    |-> d.dependenciesJson,
       memoryConfigs       |-> m,
       bundleWithNcc       |-> d.bundleWithNcc,
       iterationsPerConfig |-> n,
       dynamicDependencies |-> d.dynamicDependencies] :
      d \in DepCases, m \in SeqsUpTo(MemPool, MaxConfigs), n \in 0..MaxIter }

\* the inputs of the runs that are followed through kills and restarts
ResumeInputs ==
    { [dependenciesJson    |-> d.dependenciesJson,
       memoryConfigs       |-> <<Mem128>>,
       bundleWithNcc       |-> d.bundleWithNcc,
       iterationsPerConfig |-> 1,
       dynamicDependencies |-> d.dynamicDependencies] : d \in DepCases }

\* the inputs of the runs that are followed through one batch of up to MaxSamples runs
SampleInputs ==
    { [dependenciesJson    |-> d.dependenciesJson,
       memoryConfigs       |-> <<Mem256>>,
       bundleWithNcc       |-> d.bundleWithNcc,
       iterationsPerConfig |-> n,
       dynamicDependencies |-> d.dynamicDependencies] :
      d \in DepCases, n \in 0..MaxSamples }

\* sequences of up to n different elements of S
DistinctSeqs(S, n) == {q \in SeqsUpTo(S, n) : \A i, j \in 1..Len(q) : q[i] = q[j] => i = j}

PackageNames == {"a", "b", "c"}

\* the inputs of the runs whose generated files are followed: every choice of up to
\* MaxDeps dependency keys and of up to MaxDeps lazy dependencies (which need not be
\* keys), one configuration, one run
LayoutInputs ==
    { [dependenciesJson    |-> [i \in 1..Len(keys) |-> [name |-> keys[i], version |-> "*"]],
       memoryConfigs       |-> <<Mem128>>,
       bundleWithNcc       |-> b,
       iterationsPerConfig |-> 1,
       dynamicDependencies |-> lazy] :
      keys \in DistinctSeqs(PackageNames, MaxDeps),
      lazy \in DistinctSeqs(PackageNames, MaxDeps),
      b \in BOOLEAN }

LineOk == <<"o", "k">>
LogPlain        == <<LineOk, StartupMarker \o <<" ", "1", "0">>, StartupMarker \o <<" ", "7">>>>
LogDyn          == << <<"x", " ">> \o StartupMarker \o <<" ", "2", "0", ".", "5", " ", "m", "s">>,
                      DynamicMarker \o <<" ", "4", "2">> >>
LogNoMarker     == <<LineOk>>
LogMalformed    == <<StartupMarker \o <<" ", "N", "a", "N">>, StartupMarker \o <<" ", "1", "0">>>>
LogDynMalformed == <<StartupMarker \o <<"1", "0">>, DynamicMarker \o <<" ", "n", "/", "a">>>>
LogPool == {LogPlain, LogDyn, LogNoMarker, LogMalformed, LogDynMalformed}

(***************************************************************************)
(* State.                                                                  *)
(***************************************************************************)
VARIABLES
    input,               \* Actor.getInput()
    state,               \* the object Actor.useState() returned
    loaded,              \* the record in the key-value store that Actor.useState()
                         \* read when this process started
    pc,                  \* position of the script
    error,               \* the error the script died of
    calls,               \* remote calls issued by this process, in order
    prior,               \* provisioning calls that succeeded in earlier processes
    restarts,            \* processes started after the first
    nextId,              \* ids the platform has handed out
    build,               \* the build object of a triggered build
    actors,              \* temporary Actors that exist on the platform
    versions,            \* version updates the platform accepted
    cfgIdx,              \* position of the for loop over memoryConfigs
    runRequests,         \* the batch handed to callRuns
    runs,                \* Object.values(runsRecord)
    runIdx,              \* position of the for loop over runs
    runLog,              \* the log fetched last
    startupTimes,
    dynamicImportTimes,
    sink,                \* dataset items pushed by this process (the script never
                         \* reads the dataset, items of earlier processes are left out)
    archive,             \* downloadZipTemplate: the entries of the ZIP, in archive order
    zstep,               \* position of downloadZipTemplate
    requested,           \* zipfile.readEntry() calls yauzl has not answered yet
    emitted,             \* entries yauzl has emitted
    opening,             \* entries whose openReadStream callback is due
    streams,             \* open read streams: the entry and the chunks received
    fileMap,             \* the mapping under construction, as (name, content) pairs
    promise,             \* the promise returned: pending, resolved or rejected
    result,              \* the mapping the promise was resolved with
    failure              \* the error that occurred during the extraction

vars == <<input, state, loaded, pc, error, calls, prior, restarts, nextId, build, actors,
          versions, cfgIdx, runRequests,
          runs, runIdx, runLog, startupTimes, dynamicImportTimes, sink,
          archive, zstep, requested, emitted, opening, streams, fileMap, promise, result,
          failure>>

provVars == <<state, nextId, build, actors, versions>>
loopVars == <<cfgIdx, runRequests, runs, runIdx, runLog, startupTimes, dynamicImportTimes, sink>>
procVars == <<input, loaded, prior, restarts>>
zipVars == <<archive, zstep, requested, emitted, opening, streams, fileMap, promise, result,
             failure>>

EmptyState == [actorId |-> NoVal, versionNumber |-> NoVal, buildNumber |-> NoVal]

\* log().get() of a run: the text split into lines, or undefined
NoLog == [defined |-> FALSE, lines |-> <<>>]
LogOf(lines) == [defined |-> TRUE, lines |-> lines]

\* the build object returned by actor(actorId).build(versionNumber): its number, and
\* the Actor and the version it was triggered on
NoBuild == [buildNumber |-> NoVal, actorId |-> NoVal, versionNumber |-> NoVal]

Running == {"create", "manifest", "version", "build", "waitBuild", "loop", "logs", "exit"}

\* downloadZipTemplate called on archive a: nothing fetched yet
ZipCalled(a) ==
    /\ archive = a
    /\ zstep = "fetch"
    /\ requested = 0
    /\ emitted = 0
    /\ opening = {}
    /\ streams = {}
    /\ fileMap = {}
    /\ promise = "pending"
    /\ result = {}
    /\ failure = "none"

\* where the extraction of the archive is not followed: it is the one call of
\* PublishVersion, which returns or throws
ZipNotFollowed ==
    /\ archive = <<>>
    /\ zstep = "idle"
    /\ requested = 0
    /\ emitted = 0
    /\ opening = {}
    /\ streams = {}
    /\ fileMap = {}
    /\ promise = "pending"
    /\ result = {}
    /\ failure = "none"

\* the first process: Actor.init(), getInput(), useState() on an empty store
InitFrom(inputs) ==
    /\ input \in inputs
    /\ state = EmptyState
    /\ loaded = EmptyState
    /\ pc = "create"
    /\ error = "none"
    /\ calls = <<>>
    /\ prior = {}
    /\ restarts = 0
    /\ nextId = 0
    /\ build = NoBuild
    /\ actors = {}
    /\ versions = <<>>
    /\ cfgIdx = 1
    /\ runRequests = <<>>
    /\ runs = <<>>
    /\ runIdx = 1
    /\ runLog = NoLog
    /\ startupTimes = <<>>
    /\ dynamicImportTimes = <<>>
    /\ sink = <<>>
    /\ ZipNotFollowed

Init == InitFrom(Inputs)

\* a remote call is issued and returns (ok) or throws
Call(op, ok) == calls' = Append(calls, [op |-> op, ok |-> ok])

\* variant: the error is noted and the script goes on to the run batches
ThrowAndGoOn(err) == pc' = "loop" /\ error' = err

\* an exception reaches the top level: the process dies where it stands
Throw(err) == pc' = "failed" /\ error' = err

(***************************************************************************)
(* Provisioning.                                                           *)
(***************************************************************************)
\* variant: the checkpoint is not consulted, an Actor is created on every start
NeedsActorAlways(st) == TRUE

\* !state.actorId
NeedsActor(st) == st.actorId = NoVal

\* !state.versionNumber
NeedsVersion(st) == st.versionNumber = NoVal

\* variant: the build step is skipped
NeedsBuildNever(st) == FALSE

\* !state.buildNumber
NeedsBuild(st) == st.buildNumber = NoVal

\* if (!state.actorId) { actors().create(...); state.actorId = id }
CreateActor ==
    /\ pc = "create"
    /\ IF NeedsActor(state)
       THEN \E ok \in BOOLEAN :
              /\ Call("create", ok)
              /\ IF ok
                 THEN /\ nextId' = nextId + 1
                      /\ state' = [state EXCEPT !.actorId = ToString(nextId + 1)]
                      /\ actors' = actors \cup {ToString(nextId + 1)}
                      /\ pc' = "manifest"
                      /\ UNCHANGED error
                 ELSE /\ Throw("CreateFailed")
                      /\ UNCHANGED <<state, nextId, actors>>
       ELSE /\ pc' = "manifest"
            /\ UNCHANGED <<error, calls, state, nextId, actors>>
    /\ UNCHANGED <<build, versions, loopVars, procVars, zipVars>>

\* fetchManifest(); templates.find(id === 'ts-crawlee-cheerio'); throw when not found
FetchManifest ==
    /\ pc = "manifest"
    /\ \E outcome \in {"throws", "missing", "found"} :
         /\ Call("fetchManifest", outcome # "throws")
         /\ CASE outcome = "throws"  -> Throw("ManifestFailed")
              [] outcome = "missing" -> Throw("TemplateNotFound")
              [] outcome = "found"   -> pc' = "version" /\ UNCHANGED error
    /\ UNCHANGED <<provVars, loopVars, procVars, zipVars>>

\* if (!state.versionNumber) { downloadZipTemplate; version('0.0').update(sourceFiles);
\*                             state.versionNumber = version.versionNumber }
PublishVersion ==
    /\ pc = "version"
    /\ IF NeedsVersion(state)
       THEN \E outcome \in {"zipThrows", "updateThrows", "ok"} :
              CASE outcome = "zipThrows" ->
                     /\ Call("downloadZipTemplate", FALSE)
                     /\ Throw("DownloadFailed")
                     /\ UNCHANGED <<state, versions>>
                [] outcome = "updateThrows" ->
                     /\ calls' = calls \o <<[op |-> "downloadZipTemplate", ok |-> TRUE],
                                            [op |-> "version.update", ok |-> FALSE]>>
                     /\ Throw("PublishFailed")
                     /\ UNCHANGED <<state, versions>>
                [] outcome = "ok" ->
                     /\ calls' = calls \o <<[op |-> "downloadZipTemplate", ok |-> TRUE],
                                            [op |-> "version.update", ok |-> TRUE]>>
                     /\ versions' = Append(versions, [actorId       |-> state.actorId,
                                                      versionNumber |-> "0.0",
                                                      sourceFiles   |-> SourceFiles(input)])
                     /\ state' = [state EXCEPT !.versionNumber = "0.0"]
                     /\ pc' = "build"
                     /\ UNCHANGED error
       ELSE /\ pc' = "build"
            /\ UNCHANGED <<error, calls, state, versions>>
    /\ UNCHANGED <<nextId, build, actors, loopVars, procVars, zipVars>>

\* if (!state.buildNumber) { build = actor(...).build(state.versionNumber) ...
TriggerBuild ==
    /\ pc = "build"
    /\ IF NeedsBuild(state)
       THEN \E ok \in BOOLEAN :
              /\ Call("build", ok)
              /\ IF ok
                 THEN /\ nextId' = nextId + 1
                      /\ build' = [buildNumber   |-> ToString(nextId + 1),
                                    actorId       |-> state.actorId,
                                    versionNumber |-> state.versionNumber]
                      /\ pc' = "waitBuild"
                      /\ UNCHANGED error
                 ELSE /\ Throw("BuildFailed")
                      /\ UNCHANGED <<nextId, build>>
       ELSE /\ pc' = "loop"
            /\ UNCHANGED <<error, calls, nextId, build>>
    /\ UNCHANGED <<state, actors, versions, loopVars, procVars, zipVars>>

\* ... build(build.id).waitForFinish(); state.buildNumber = build.buildNumber }
WaitForFinish ==
    /\ pc = "waitBuild"
    /\ \E ok \in BOOLEAN :
         /\ Call("waitForFinish", ok)
         /\ IF ok
            THEN /\ state' = [state EXCEPT !.buildNumber = build.buildNumber]
                 /\ pc' = "loop"
                 /\ UNCHANGED error
            ELSE /\ Throw("WaitFailed")
                 /\ UNCHANGED state
    /\ UNCHANGED <<nextId, build, actors, versions, loopVars, procVars, zipVars>>

(***************************************************************************)
(* The loop over the memory configurations.                                *)
(***************************************************************************)
\* Number(memoryMbs) of a string of digits
NumberOf(str) == DigitsVal(str, 1, Len(str) + 1)

\* the character of a digit value
DigitChar(d) == CHOOSE c \in Digits : DigitVal(c) = d

\* `${n}` of a non-negative integer: its decimal digits
RECURSIVE Decimal(_)
Decimal(n) == IF n < 10 THEN <<DigitChar(n)>> ELSE Decimal(n \div 10) \o <<DigitChar(n % 10)>>

\* `mem-${memoryMbs}-run-${i + 1}` for the 0-based key i (k = i + 1)
RunName(memoryMbs, k) ==
    <<"m", "e", "m", "-">> \o memoryMbs \o <<"-", "r", "u", "n", "-">> \o Decimal(k)

\* variant: the name leaves out the index of the run
RunRequestsSameName(inp, memoryMbs) ==
    [i \in 1..inp.iterationsPerConfig |->
        [runName |-> <<"m", "e", "m", "-">> \o memoryMbs \o <<"-", "r", "u", "n">>,
         options |-> [memory |-> NumberOf(memoryMbs)]]]

\* [...Array(iterationsPerConfig).keys()].map((i) => ({ runName, input, options }))
RunRequests(inp, memoryMbs) ==
    [i \in 1..inp.iterationsPerConfig |->
        [runName |-> RunName(memoryMbs, i),
         options |-> [memory |-> NumberOf(memoryMbs)]]]

\* variant: the loop stops one configuration early
LoopDoneEarly(i, memoryConfigs) == i >= Len(memoryConfigs)

\* the for...of over memoryConfigs has run out
LoopDone(i, memoryConfigs) == i > Len(memoryConfigs)

\* callRuns(...runRequests); runs = Object.values(runsRecord); the sample arrays start empty
CallRuns ==
    /\ pc = "loop"
    /\ ~LoopDone(cfgIdx, input.memoryConfigs)
    /\ \E ok \in BOOLEAN :
         /\ Call("callRuns", ok)
         /\ runRequests' = RunRequests(input, input.memoryConfigs[cfgIdx])
         /\ IF ok
            THEN /\ runs' = [i \in 1..Len(runRequests') |-> [id |-> runRequests'[i].runName]]
                 /\ runIdx' = 1
                 /\ startupTimes' = <<>>
                 /\ dynamicImportTimes' = <<>>
                 /\ pc' = "logs"
                 /\ UNCHANGED error
            ELSE /\ Throw("CallRunsFailed")
                 /\ UNCHANGED <<runs, runIdx, startupTimes, dynamicImportTimes>>
    /\ UNCHANGED <<cfgIdx, runLog, sink, provVars, procVars, zipVars>>

\* one pass of `for (const run of runs)`: fetch the log, take the startup sample and,
\* when its marker line is there and matches, the dynamic-import sample
FetchLog ==
    /\ pc = "logs"
    /\ runIdx <= Len(runs)
    /\ \/ /\ Call("log.get", FALSE)
          /\ Throw("LogFailed")
          /\ UNCHANGED <<runIdx, runLog, startupTimes, dynamicImportTimes>>
       \/ \E got \in {NoLog} \cup {LogOf(l) : l \in LogPool} :
            LET lines            == got.lines
                startupLog       == FindLine(lines, StartupMarker)
                dynamicImportLog == FindLine(lines, DynamicMarker)
            IN  /\ Call("log.get", TRUE)
                /\ runLog' = got
                /\ IF startupLog = 0
                   THEN /\ Throw("MissingStartupMarker")
                        /\ UNCHANGED <<runIdx, startupTimes, dynamicImportTimes>>
                   ELSE IF ~HasMatch(lines[startupLog], StartupMarker)
                   THEN /\ Throw("MalformedTimingLine")
                        /\ UNCHANGED <<runIdx, startupTimes, dynamicImportTimes>>
                   ELSE /\ startupTimes' =
                             Append(startupTimes, MatchNumber(lines[startupLog], StartupMarker))
                        /\ dynamicImportTimes' =
                             IF /\ dynamicImportLog # 0
                                /\ HasMatch(lines[dynamicImportLog], DynamicMarker)
                             THEN Append(dynamicImportTimes,
                                         MatchNumber(lines[dynamicImportLog], DynamicMarker))
                             ELSE dynamicImportTimes
                        /\ runIdx' = runIdx + 1
                        /\ UNCHANGED <<pc, error>>
    /\ UNCHANGED <<cfgIdx, runRequests, runs, sink, provVars, procVars, zipVars>>

\* variant: the item replaces what the dataset held
PushItemOverwrite(items, item) == <<item>>

\* Actor.pushData(item): the item is appended to the dataset
PushItem(items, item) == Append(items, item)

\* after the last run: the statistics and Actor.pushData, then the next configuration
PushData ==
    /\ pc = "logs"
    /\ runIdx > Len(runs)
    /\ \E ok \in BOOLEAN :
         /\ Call("pushData", ok)
         /\ IF ok
            THEN /\ sink' = PushItem(sink, AggregateRecord(input, input.memoryConfigs[cfgIdx],
                                                           startupTimes, dynamicImportTimes))
                 /\ cfgIdx' = cfgIdx + 1
                 /\ pc' = "loop"
                 /\ UNCHANGED error
            ELSE /\ Throw("PushFailed")
                 /\ UNCHANGED <<sink, cfgIdx>>
    /\ UNCHANGED <<runRequests, runs, runIdx, runLog, startupTimes, dynamicImportTimes,
                   provVars, procVars, zipVars>>

(***************************************************************************)
(* Teardown and exit.                                                      *)
(***************************************************************************)
\* after the loop: actor(state.actorId).delete()
DeleteActor ==
    /\ pc = "loop"
    /\ LoopDone(cfgIdx, input.memoryConfigs)
    /\ \E ok \in BOOLEAN :
         /\ Call("delete", ok)
         /\ IF ok
            THEN /\ actors' = actors \ {state.actorId}
                 /\ pc' = "exit"
                 /\ UNCHANGED error
            ELSE /\ Throw("DeleteFailed")
                 /\ UNCHANGED actors
    /\ UNCHANGED <<state, nextId, build, versions, loopVars, procVars, zipVars>>

\* Actor.exit(): the process ends
Exit ==
    /\ pc = "exit"
    /\ pc' = "done"
    /\ UNCHANGED <<error, calls, provVars, loopVars, procVars, zipVars>>

(***************************************************************************)
(* The environment of the script.                                          *)
(***************************************************************************)
\* The state object is an auto-saved value: the script only assigns to its fields, and
\* the SDK writes the object to the key-value store on its own persist events.  The
\* store of a dead process therefore holds one of the values the object had while the
\* process lived: what was read at the start, or that with the fields set since, in the
\* order the script sets them.
Snapshots(atStart, atEnd) ==
    LET s1 == [atStart EXCEPT !.actorId = atEnd.actorId]
        s2 == [s1 EXCEPT !.versionNumber = atEnd.versionNumber]
    IN  {atStart, s1, s2, atEnd}

\* provisioning calls of this process that returned
Succeeded == {calls[i].op : i \in {j \in 1..Len(calls) : calls[j].ok}}

\* a new process on the storages of the dead one: Actor.useState() reads the store
StartOver(saved) ==
    /\ restarts < MaxRestarts
    /\ restarts' = restarts + 1
    /\ prior' = prior \cup (Succeeded \cap {"create", "version.update", "build"})
    /\ state' = saved
    /\ loaded' = saved
    /\ pc' = "create"
    /\ error' = "none"
    /\ calls' = <<>>
    /\ build' = NoBuild
    /\ cfgIdx' = 1
    /\ runRequests' = <<>>
    /\ runs' = <<>>
    /\ runIdx' = 1
    /\ runLog' = NoLog
    /\ startupTimes' = <<>>
    /\ dynamicImportTimes' = <<>>
    /\ sink' = <<>>
    /\ UNCHANGED <<input, nextId, actors, versions, zipVars>>

\* the process is killed while it waits, and started again
Crash ==
    /\ pc \in Running
    /\ \E saved \in Snapshots(loaded, state) : StartOver(saved)

\* the process that died of an error is started again
Restart ==
    /\ pc = "failed"
    /\ \E saved \in Snapshots(loaded, state) : StartOver(saved)

\* the script
Next ==
    \/ CreateActor
    \/ FetchManifest
    \/ PublishVersion
    \/ TriggerBuild
    \/ WaitForFinish
    \/ CallRuns
    \/ FetchLog
    \/ PushData
    \/ DeleteActor
    \/ Exit

\* one run of the script, from an empty store to its exit or its fatal error
Spec == Init /\ [][Next]_vars

\* the script in an environment that kills it and starts it again
NextResume ==
    \/ Next
    \/ Crash
    \/ Restart

InitResume == InitFrom(ResumeInputs)

ResumeSpec == InitResume /\ [][NextResume]_vars

\* one run of the script on a single configuration with a longer batch
InitSample == InitFrom(SampleInputs)

SampleSpec == InitSample /\ [][Next]_vars

\* one run of the script for every shape of the dependency input
InitLayout == InitFrom(LayoutInputs)

LayoutSpec == InitLayout /\ [][Next]_vars

(***************************************************************************)
(* downloadZipTemplate: the archive is fetched, opened with yauzl in       *)
(* lazyEntries mode and read through the callbacks of the zipfile and of   *)
(* the read streams.  A file name is a sequence of characters, a content a *)
(* sequence of chunks, a chunk a sequence of bytes.                        *)
(***************************************************************************)
\* bytes that are no UTF-8 text
InvalidBytes == {"0xFF", "0x89"}

\* Buffer.toString("utf8"): a byte that cannot be decoded gives U+FFFD
Utf8(bytes) ==
    [i \in 1..Len(bytes) |-> IF bytes[i] \in InvalidBytes THEN "U+FFFD" ELSE bytes[i]]

\* Buffer.concat(chunks)
RECURSIVE Concat(_)
Concat(chunks) == IF chunks = <<>> THEN <<>> ELSE chunks[1] \o Concat(Tail(chunks))

\* entry.fileName.endsWith("/")
EndsWithSlash(fileName) == Len(fileName) > 0 /\ fileName[Len(fileName)] = "/"

\* fileMap[name] = content on the plain object
SetKey(map, name, content) ==
    {kv \in map : kv.name # name} \cup {[name |-> name, content |-> content]}

DirEntry    == [fileName |-> <<"s", "r", "c", "/">>, chunks |-> <<>>]
JsonEntry   == [fileName |-> <<"p", ".", "j", "s", "o", "n">>, chunks |-> << <<"{">>, <<"}">> >>]
MainEntry   == [fileName |-> <<"s", "r", "c", "/", "m", ".", "t", "s">>, chunks |-> << <<"m">> >>]
BinaryEntry == [fileName |-> <<"i", ".", "p", "n", "g">>, chunks |-> << <<"0x89", "P">> >>]
EntryPool == {DirEntry, JsonEntry, MainEntry, BinaryEntry}

\* the archives drawn: up to MaxEntries entries with different names, in any order
Archives == DistinctSeqs(EntryPool, MaxEntries)

scriptVars == <<input, state, loaded, pc, error, calls, prior, restarts, nextId, build, actors,
                versions, loopVars>>

\* resolve / reject: a promise is settled once
Settle(outcome) ==
    /\ promise' = IF promise = "pending" THEN outcome ELSE promise
    /\ result' = IF promise = "pending" /\ outcome = "resolved" THEN fileMap ELSE result

\* fetch(zipUrl); !response.ok throws; response.arrayBuffer()
Fetch ==
    /\ zstep = "fetch"
    /\ \E ok \in BOOLEAN :
         IF ok
         THEN zstep' = "fromBuffer" /\ UNCHANGED <<promise, result, failure>>
         ELSE zstep' = "closed" /\ Settle("rejected") /\ failure' = "fetch"
    /\ UNCHANGED <<archive, requested, emitted, opening, streams, fileMap, scriptVars>>

\* the callback of yauzl.fromBuffer: reject(err), or the first zipfile.readEntry()
FromBuffer ==
    /\ zstep = "fromBuffer"
    /\ \E ok \in BOOLEAN :
         IF ok
         THEN /\ zstep' = "reading"
              /\ requested' = requested + 1
              /\ UNCHANGED <<promise, result, failure>>
         ELSE /\ zstep' = "closed"
              /\ Settle("rejected")
              /\ failure' = "fromBuffer"
              /\ UNCHANGED requested
    /\ UNCHANGED <<archive, emitted, opening, streams, fileMap, scriptVars>>

\* zipfile.on("entry"): a directory is skipped with readEntry(), a file is opened
OnEntry ==
    /\ zstep = "reading"
    /\ requested > 0
    /\ emitted < Len(archive)
    /\ emitted' = emitted + 1
    /\ IF EndsWithSlash(archive[emitted + 1].fileName)
       THEN UNCHANGED <<requested, opening>>
       ELSE requested' = requested - 1 /\ opening' = opening \cup {emitted + 1}
    /\ UNCHANGED <<archive, zstep, streams, fileMap, promise, result, failure, scriptVars>>

\* zipfile.on("end"): resolve(fileMap)
OnEnd ==
    /\ zstep = "reading"
    /\ requested > 0
    /\ emitted = Len(archive)
    /\ requested' = requested - 1
    /\ zstep' = "closed"
    /\ Settle("resolved")
    /\ UNCHANGED <<archive, emitted, opening, streams, fileMap, failure, scriptVars>>

\* zipfile.on("error"): the next entry cannot be read, reject
OnError ==
    /\ zstep = "reading"
    /\ requested > 0
    /\ emitted < Len(archive)
    /\ requested' = requested - 1
    /\ zstep' = "closed"
    /\ Settle("rejected")
    /\ failure' = "zipfile"
    /\ UNCHANGED <<archive, emitted, opening, streams, fileMap, scriptVars>>

\* the callback of zipfile.openReadStream: reject(err), or the listeners are put on
\* the stream
OnOpenReadStream ==
    /\ zstep = "reading"
    /\ \E i \in opening : \E ok \in BOOLEAN :
         /\ opening' = opening \ {i}
         /\ IF ok
            THEN /\ streams' = streams \cup {[entry |-> i, chunks |-> <<>>]}
                 /\ UNCHANGED <<promise, result, failure>>
            ELSE /\ Settle("rejected")
                 /\ failure' = "open"
                 /\ UNCHANGED streams
    /\ UNCHANGED <<archive, zstep, requested, emitted, fileMap, scriptVars>>

\* stream.on("data"): chunks.push(c)
OnData ==
    /\ zstep = "reading"
    /\ \E st \in streams :
         /\ Len(st.chunks) < Len(archive[st.entry].chunks)
         /\ streams' = (streams \ {st}) \cup
                {[st EXCEPT !.chunks = Append(@, archive[st.entry].chunks[Len(@) + 1])]}
    /\ UNCHANGED <<archive, zstep, requested, emitted, opening, fileMap, promise, result,
                   failure, scriptVars>>

\* stream.on("end"): the decoded content is stored under the file name, readEntry()
OnStreamEnd ==
    /\ zstep = "reading"
    /\ \E st \in streams :
         /\ Len(st.chunks) = Len(archive[st.entry].chunks)
         /\ fileMap' = SetKey(fileMap, archive[st.entry].fileName, Utf8(Concat(st.chunks)))
         /\ streams' = streams \ {st}
         /\ requested' = requested + 1
    /\ UNCHANGED <<archive, zstep, emitted, opening, promise, result, failure, scriptVars>>

\* the stream emits "error" (inflate or size check): there is no listener for it, the
\* error is thrown out of the emitter and ends the process with the promise pending
OnStreamError ==
    /\ zstep = "reading"
    /\ \E st \in streams :
         /\ streams' = streams \ {st}
         /\ zstep' = "crashed"
         /\ failure' = "stream"
    /\ UNCHANGED <<archive, requested, emitted, opening, fileMap, promise, result, scriptVars>>

NextExtract ==
    \/ Fetch
    \/ FromBuffer
    \/ OnEntry
    \/ OnEnd
    \/ OnError
    \/ OnOpenReadStream
    \/ OnData
    \/ OnStreamEnd
    \/ OnStreamError

\* the script stands in `await downloadZipTemplate(template.archiveUrl)`: the Actor is
\* created, the template found
InitExtract ==
    /\ input \in ResumeInputs
    /\ state = [EmptyState EXCEPT !.actorId = "1"]
    /\ loaded = EmptyState
    /\ pc = "version"
    /\ error = "none"
    /\ calls = <<[op |-> "create", ok |-> TRUE], [op |-> "fetchManifest", ok |-> TRUE]>>
    /\ prior = {}
    /\ restarts = 0
    /\ nextId = 1
    /\ build = NoBuild
    /\ actors = {"1"}
    /\ versions = <<>>
    /\ cfgIdx = 1
    /\ runRequests = <<>>
    /\ runs = <<>>
    /\ runIdx = 1
    /\ runLog = NoLog
    /\ startupTimes = <<>>
    /\ dynamicImportTimes = <<>>
    /\ sink = <<>>
    /\ \E a \in Archives : ZipCalled(a)

ExtractSpec == InitExtract /\ [][NextExtract]_vars

(***************************************************************************)
(* Vocabulary of the properties.                                           *)
(***************************************************************************)
Ops == [i \in 1..Len(calls) |-> calls[i].op]

Count(op) == Cardinality({i \in 1..Len(calls) : calls[i].op = op})

LastOp == IF calls = <<>> THEN "none" ELSE calls[Len(calls)].op

IsPrefix(s, t) == Len(s) <= Len(t) /\ \A i \in 1..Len(s) : s[i] = t[i]

\* calls of the three provisioning steps to the platform
IsStepOp(op) == op \in {"create", "version.update", "build", "waitForFinish"}
StepOps == SelectSeq(Ops, IsStepOp)

\* every remote call provisioning can make
ProvisioningOps == {"create", "fetchManifest", "downloadZipTemplate", "version.update",
                    "build", "waitForFinish"}

\* calls to the execution platform
PlatformOps == {"create", "version.update", "build", "waitForFinish", "callRuns", "log.get",
                "pushData", "delete"}

OnlyActor(st) == st.actorId # NoVal /\ st.versionNumber = NoVal /\ st.buildNumber = NoVal
AllSet(st) == st.actorId # NoVal /\ st.versionNumber # NoVal /\ st.buildNumber # NoVal

\* provisioning is behind this process
Provisioned == pc \in {"loop", "logs", "exit", "done"}

\* errors thrown inside the loop over the configurations
LoopErrors == {"CallRunsFailed", "LogFailed", "MissingStartupMarker", "MalformedTimingLine",
               "PushFailed"}

(***************************************************************************)
(* C1.  Resume: a process that starts with only actorId persisted issues,  *)
(* of the provisioning steps, exactly the version update, then the build,  *)
(* then the wait for the build, and never a create.                        *)
(***************************************************************************)
C1_Resume ==
    OnlyActor(loaded) =>
        /\ IsPrefix(StepOps, <<"version.update", "build", "waitForFinish">>)
        /\ Provisioned => StepOps = <<"version.update", "build", "waitForFinish">>

C1_Witness ==
    /\ OnlyActor(loaded)
    /\ pc = "loop"
    /\ StepOps = <<"version.update", "build", "waitForFinish">>
    /\ AllSet(state)

(***************************************************************************)
(* C2.  Idempotence: a process that starts with all three fields persisted *)
(* makes no remote call of provisioning (create, template catalog or       *)
(* archive fetch, version update, build, wait) and leaves the state as it  *)
(* was.                                                                    *)
(***************************************************************************)
C2_NoCallsWhenAllSet ==
    AllSet(loaded) =>
        /\ state = loaded
        /\ \A i \in 1..Len(calls) : calls[i].op \notin ProvisioningOps

(***************************************************************************)
(* C3.  Crash recovery: a provisioning step (create, version update, build *)
(* trigger) whose remote call succeeded in an earlier process is not       *)
(* issued again after the restart.                                         *)
(***************************************************************************)
C3_NoStepRepeated == \A op \in prior : Count(op) = 0

(***************************************************************************)
(* C4.  One record per configuration, in input order, labelled with the    *)
(* configuration; the batch of a configuration is dispatched only when the *)
(* records of all earlier configurations are in the sink; a run that       *)
(* finishes has emitted a record for every configuration.                  *)
(***************************************************************************)
C4_OneRecordPerConfigInOrder ==
    /\ Len(sink) <= Len(input.memoryConfigs)
    /\ \A i \in 1..Len(sink) : sink[i].memoryMbs = input.memoryConfigs[i]
    /\ Count("callRuns") <= Len(sink) + 1
    /\ pc = "logs" => Count("callRuns") = Len(sink) + 1
    /\ pc = "done" => /\ Len(sink) = Len(input.memoryConfigs)
                      /\ Count("callRuns") = Len(input.memoryConfigs)
                      /\ Count("pushData") = Len(input.memoryConfigs)

C4_Witness ==
    /\ pc = "done"
    /\ Len(sink) = 2
    /\ sink[1].memoryMbs = Mem256
    /\ sink[2].memoryMbs = Mem128
    /\ input.iterationsPerConfig = 2

(***************************************************************************)
(* C5.  Teardown on the success path: a run that got through all the       *)
(* configurations has issued exactly one delete, as its last call, after   *)
(* the record of the last configuration and after the last batch; no       *)
(* delete is issued earlier.                                               *)
(***************************************************************************)
C5_DeleteOnceAtTheEnd ==
    /\ Count("delete") <= 1
    /\ Count("delete") = 1 =>
         /\ LastOp = "delete"
         /\ Len(sink) = Len(input.memoryConfigs)
         /\ Count("callRuns") = Len(input.memoryConfigs)
    /\ pc \in {"exit", "done"} => Count("delete") = 1

C5_Witness ==
    /\ pc = "done"
    /\ Len(sink) = 2
    /\ LastOp = "delete"
    /\ state.actorId \notin actors

(***************************************************************************)
(* C6.  Teardown on abort: a process that ends (normally or on a fatal     *)
(* error) while actorId is set has issued the delete as its last call.     *)
(***************************************************************************)
C6_DeleteOnAbort ==
    (pc \in {"failed", "done"} /\ state.actorId # NoVal) => LastOp = "delete"

(***************************************************************************)
(* C7.  Template not found: starting from the empty state, the run that    *)
(* dies of the missing template has made no call to the platform.          *)
(***************************************************************************)
C7_NoPlatformCallBeforeTemplateNotFound ==
    (error = "TemplateNotFound" /\ loaded = EmptyState) =>
        \A i \in 1..Len(calls) : calls[i].op \notin PlatformOps

(***************************************************************************)
(* C8.  Missing startup marker: once a fetched log (or an undefined one)   *)
(* has no line containing `startup:`, the process has died of              *)
(* MissingStartupMarker at that fetch: the fetch is its last call, the     *)
(* sink holds no record of the current configuration, and no later batch   *)
(* was dispatched.                                                         *)
(***************************************************************************)
NoStartupLine(lines) ==
    \A i \in 1..Len(lines) : \A k \in 1..Len(lines[i]) : ~HasAt(lines[i], StartupMarker, k)

Fetched == \E i \in 1..Len(calls) : calls[i].op = "log.get" /\ calls[i].ok

C8_MissingMarkerIsFatal ==
    (Fetched /\ NoStartupLine(runLog.lines)) =>
        /\ pc = "failed"
        /\ error = "MissingStartupMarker"
        /\ LastOp = "log.get"
        /\ Len(sink) = cfgIdx - 1
        /\ Count("callRuns") = cfgIdx
        /\ Count("pushData") = cfgIdx - 1

C8_Witness ==
    /\ error = "MissingStartupMarker"
    /\ runLog = LogOf(LogNoMarker)
    /\ cfgIdx = 1
    /\ runIdx = 2
    /\ Len(input.memoryConfigs) = 2
    /\ sink = <<>>

(***************************************************************************)
(* C9.  Partial results survive: when the process dies inside the loop at  *)
(* configuration k, the sink holds exactly the records of configurations   *)
(* 1..k-1 in input order; and a record in the sink is never changed or     *)
(* removed while the process lives.                                        *)
(***************************************************************************)
C9_PartialResultsSurvive ==
    /\ [](pc = "failed" /\ error \in LoopErrors =>
            /\ Len(sink) = cfgIdx - 1
            /\ \A i \in 1..Len(sink) :
                 /\ sink[i].memoryMbs = input.memoryConfigs[i]
                 /\ sink[i].iterations = input.iterationsPerConfig
                 /\ Len(sink[i].allStartupTimes) = input.iterationsPerConfig)
    /\ [][restarts' = restarts => IsPrefix(sink, sink')]_vars

C9_Witness ==
    /\ pc = "failed"
    /\ error = "MalformedTimingLine"
    /\ cfgIdx = 2
    /\ Len(sink) = 1
    /\ sink[1].memoryMbs = input.memoryConfigs[1]
    /\ Len(sink[1].allStartupTimes) = 2

(***************************************************************************)
(* C10.  Empty startup-sample set is fatal: no record is emitted for a     *)
(* configuration whose batch yielded no startup sample.                    *)
(***************************************************************************)
C10_NoRecordWithoutSamples ==
    \A i \in 1..Len(sink) : sink[i].allStartupTimes # <<>>

(***************************************************************************)
(* C11.  Median: the median of a record with samples is the middle element *)
(* of its samples put in ascending numeric order (the element at 0-based   *)
(* index floor(n/2) for odd n, the average of those at n/2-1 and n/2 for   *)
(* even n); the record carries the samples in the order the runs delivered *)
(* them, not the sorted order.                                             *)
(***************************************************************************)
Ascending(t) == \A i \in 1..Len(t) - 1 : RatLeq(t[i], t[i + 1])

\* m is the reference median of S: read off some ascending rearrangement of S
IsRefMedian(m, S) ==
    LET n == Len(S)
    IN  \E f \in [1..n -> 1..n] :
          /\ \A i, j \in 1..n : f[i] = f[j] => i = j
          /\ Ascending([i \in 1..n |-> S[f[i]]])
          /\ m = IF n % 2 = 1 THEN S[f[n \div 2 + 1]]
                 ELSE RatDivInt(RatAdd(S[f[n \div 2]], S[f[n \div 2 + 1]]), 2)

C11_Median ==
    /\ \A i \in 1..Len(sink) :
         sink[i].allStartupTimes # <<>> =>
             IsRefMedian(sink[i].median, sink[i].allStartupTimes)
    /\ (pc = "loop" /\ LastOp = "pushData") =>
         sink[Len(sink)].allStartupTimes = startupTimes

C11_Witness ==
    /\ pc = "loop"
    /\ LastOp = "pushData"
    /\ startupTimes = <<Rat(10, 1), Rat(41, 2), Rat(10, 1)>>
    /\ sink[1].allStartupTimes = <<Rat(10, 1), Rat(41, 2), Rat(10, 1)>>
    /\ sink[1].median = Rat(10, 1)

(***************************************************************************)
(* C12.  Min/max: in every record of the sink, min and max are elements of *)
(* the record's allStartupTimes, every element lies between them, and so   *)
(* does the median.                                                        *)
(***************************************************************************)
C12_MinMaxBound ==
    \A i \in 1..Len(sink) :
        LET S == sink[i].allStartupTimes
        IN  /\ InSeq(sink[i].min, S)
            /\ InSeq(sink[i].max, S)
            /\ \A k \in 1..Len(S) : RatLeq(sink[i].min, S[k]) /\ RatLeq(S[k], sink[i].max)
            /\ RatLeq(sink[i].min, sink[i].median)
            /\ RatLeq(sink[i].median, sink[i].max)

(***************************************************************************)
(* C13.  Batch naming: the batch handed to callRuns for configuration c    *)
(* has exactly iterationsPerConfig requests; the name of the i-th is       *)
(* `mem-`, c, `-run-` and the decimal numeral of i (1-based), so the names *)
(* of one batch are pairwise distinct; every request carries the memory    *)
(* limit whose decimal numeral is c.                                       *)
(***************************************************************************)
NamePrefix(c) == <<"m", "e", "m", "-">> \o c \o <<"-", "r", "u", "n", "-">>

\* name is NamePrefix(c) followed by a numeral without leading zero that denotes i
NamesRun(name, c, i) ==
    LET p == Len(NamePrefix(c))
    IN  /\ Len(name) > p
        /\ SubSeq(name, 1, p) = NamePrefix(c)
        /\ \A k \in p + 1..Len(name) : name[k] \in Digits
        /\ name[p + 1] # "0"
        /\ DigitsVal(name, p + 1, Len(name) + 1) = i

C13_BatchNaming ==
    pc = "logs" =>
        LET c == input.memoryConfigs[cfgIdx]
        IN  /\ Len(runRequests) = input.iterationsPerConfig
            /\ \A i \in 1..Len(runRequests) :
                 /\ NamesRun(runRequests[i].runName, c, i)
                 /\ runRequests[i].options.memory \in Nat
                 /\ Decimal(runRequests[i].options.memory) = c
            /\ \A i, j \in 1..Len(runRequests) :
                 runRequests[i].runName = runRequests[j].runName => i = j
            /\ Len(runs) = Len(runRequests)

C13_Witness ==
    /\ pc = "logs"
    /\ input.memoryConfigs[cfgIdx] = Mem128
    /\ Len(runRequests) = 2
    /\ runRequests[2].runName = <<"m", "e", "m", "-", "1", "2", "8", "-", "r", "u", "n", "-", "2">>
    /\ runRequests[1].runName # runRequests[2].runName
    /\ runRequests[2].options.memory = 128

(***************************************************************************)
(* C14.  Entry-point layout: the src/main.ts of every published version    *)
(* is, in this order: one static import per key of dependenciesJson that   *)
(* is not a lazy dependency, in key order; the import of the timing        *)
(* facility; one startup print; and, only when there are lazy              *)
(* dependencies, one dynamic import per lazy dependency in the given order *)
(* and one dynamic-imports-done print.  Each print occurs at most once,    *)
(* and no package is imported both statically and dynamically.             *)
(***************************************************************************)
TimingImport == [stmt |-> "import", pkg |-> "perf_hooks"]
StartupPrint == [stmt |-> "log", pkg |-> "startup:"]
DonePrint    == [stmt |-> "log", pkg |-> "dynamic imports done:"]

Occurrences(f, x) == Cardinality({i \in 1..Len(f) : f[i] = x})

\* f[1..n] imports statically the keys outside lazy, each once, in key order
StaticPart(f, n, keys, lazy) ==
    /\ n = Cardinality({i \in 1..Len(keys) : ~InSeq(keys[i], lazy)})
    /\ \E g \in [1..n -> 1..Len(keys)] :
          /\ \A i, j \in 1..n : i < j => g[i] < g[j]
          /\ \A i \in 1..n : /\ ~InSeq(keys[g[i]], lazy)
                              /\ f[i] = [stmt |-> "import", pkg |-> keys[g[i]]]

Layout(f, keys, lazy) ==
    \E n \in 0..Len(f) :
        /\ Len(f) = n + 2 + (IF lazy = <<>> THEN 0 ELSE Len(lazy) + 1)
        /\ StaticPart(f, n, keys, lazy)
        /\ f[n + 1] = TimingImport
        /\ f[n + 2] = StartupPrint
        /\ lazy # <<>> =>
              /\ \A i \in 1..Len(lazy) :
                    f[n + 2 + i] = [stmt |-> "await import", pkg |-> lazy[i]]
              /\ f[Len(f)] = DonePrint
        /\ Occurrences(f, StartupPrint) = 1
        /\ Occurrences(f, DonePrint) = IF lazy = <<>> THEN 0 ELSE 1
        /\ \A i, j \in 1..Len(f) :
              (f[i].stmt = "import" /\ f[j].stmt = "await import") => f[i].pkg # f[j].pkg

C14_EntryPointLayout ==
    \A k \in 1..Len(versions) :
        Layout(versions[k].sourceFiles.mainTs,
               [i \in 1..Len(input.dependenciesJson) |-> input.dependenciesJson[i].name],
               input.dynamicDependencies)

C14_Witness ==
    /\ Len(versions) = 1
    /\ input.dependenciesJson = <<[name |-> "c", version |-> "*"], [name |-> "a", version |-> "*"]>>
    /\ input.dynamicDependencies = <<"b", "c">>
    /\ versions[1].sourceFiles.mainTs =
          <<[stmt |-> "import", pkg |-> "a"], TimingImport, StartupPrint,
            [stmt |-> "await import", pkg |-> "b"], [stmt |-> "await import", pkg |-> "c"],
            DonePrint>>

(***************************************************************************)
(* C15.  Optional dynamic-import stream: a fetched log with a well-formed  *)
(* startup line and no `dynamic imports done:` line is not an error and    *)
(* adds no dynamic sample; the record of a configuration carries dynMean,  *)
(* dynMedian, dynMin and dynMax exactly when a run of that configuration   *)
(* gave a dynamic sample; and with no lazy dependencies in the input no    *)
(* record carries them.                                                    *)
(***************************************************************************)
NoDynamicLine(lines) ==
    \A i \in 1..Len(lines) : \A k \in 1..Len(lines[i]) : ~HasAt(lines[i], DynamicMarker, k)

DynFields == {"dynMean", "dynMedian", "dynMin", "dynMax"}

HasDynStats(item) == DynFields \subseteq DOMAIN item
HasNoDynStats(item) == DynFields \cap DOMAIN item = {}

\* the fetch that just returned delivered a log with a startup sample and no dynamic line
PlainLogFetched ==
    /\ LastOp = "log.get"
    /\ calls[Len(calls)].ok
    /\ runLog.defined
    /\ NoDynamicLine(runLog.lines)
    /\ FindLine(runLog.lines, StartupMarker) # 0
    /\ HasMatch(runLog.lines[FindLine(runLog.lines, StartupMarker)], StartupMarker)

C15_MissingDynamicMarkerIsNoError ==
    /\ [](PlainLogFetched => pc = "logs" /\ error = "none")
    /\ [][PlainLogFetched' => dynamicImportTimes' = dynamicImportTimes]_vars

C15_StatsIffSamples ==
    /\ \A i \in 1..Len(sink) : HasDynStats(sink[i]) \/ HasNoDynStats(sink[i])
    /\ (pc = "loop" /\ LastOp = "pushData") =>
          (HasDynStats(sink[Len(sink)]) <=> dynamicImportTimes # <<>>)

C15_NoStatsWithoutLazyDependencies ==
    input.dynamicDependencies = <<>> => \A i \in 1..Len(sink) : HasNoDynStats(sink[i])

C15_OptionalDynamicStream ==
    /\ C15_MissingDynamicMarkerIsNoError
    /\ [](C15_StatsIffSamples /\ C15_NoStatsWithoutLazyDependencies)

(***************************************************************************)
(* C16.  Provisioning step failure: when the remote call of a provisioning *)
(* step (create, version update, build trigger, wait for the build) fails, *)
(* the process is dead with that call as its last one: the call was issued *)
(* once, no later step and no run batch follows; the field of the step is  *)
(* unset, and the failing step leaves every field of the state as it was.  *)
(***************************************************************************)
StepOfError ==
    [CreateFailed  |-> [op |-> "create",         field |-> "actorId"],
     PublishFailed |-> [op |-> "version.update", field |-> "versionNumber"],
     BuildFailed   |-> [op |-> "build",          field |-> "buildNumber"],
     WaitFailed    |-> [op |-> "waitForFinish",  field |-> "buildNumber"]]

StepErrors == DOMAIN StepOfError

C16_StepFailureIsFatal ==
    /\ [](error \in StepErrors =>
            /\ pc = "failed"
            /\ LastOp = StepOfError[error].op
            /\ ~calls[Len(calls)].ok
            /\ Count(StepOfError[error].op) = 1
            /\ Count("callRuns") = 0
            /\ state[StepOfError[error].field] = NoVal
            /\ \A f \in DOMAIN state : loaded[f] # NoVal => state[f] = loaded[f])
    /\ [][error' \in StepErrors => state' = state]_vars

C16_Witness ==
    /\ error = "WaitFailed"
    /\ pc = "failed"
    /\ OnlyActor(loaded)
    /\ state.actorId = loaded.actorId
    /\ state.versionNumber = "0.0"
    /\ state.buildNumber = NoVal
    /\ Ops = <<"fetchManifest", "downloadZipTemplate", "version.update", "build", "waitForFinish">>

(***************************************************************************)
(* C17.  Checkpoint monotonicity: over the steps of a process and over     *)
(* restarts, a field of the state that is set keeps its value (it is not   *)
(* cleared and not given another value, by teardown or otherwise, so it is *)
(* written at most once), and an unset field becomes set only in the step  *)
(* in which the remote call of its own provisioning step has succeeded.    *)
(***************************************************************************)
\* the call whose success is followed by the assignment to the field
WriteOp == [actorId |-> "create", versionNumber |-> "version.update",
            buildNumber |-> "waitForFinish"]

C17_CheckpointMonotone ==
    [][\A f \in DOMAIN state :
         /\ state[f] # NoVal => state'[f] = state[f]
         /\ (state[f] = NoVal /\ state'[f] # NoVal) =>
               /\ calls' = Append(SubSeq(calls', 1, Len(calls') - 1), [op |-> WriteOp[f], ok |-> TRUE])
               /\ Len(calls') > Len(calls)]_vars

\* the same, for the steps of one process only
C17_MonotoneWithinProcess ==
    [][restarts' = restarts =>
         \A f \in DOMAIN state :
           /\ state[f] # NoVal => state'[f] = state[f]
           /\ (state[f] = NoVal /\ state'[f] # NoVal) =>
                 /\ calls' = Append(SubSeq(calls', 1, Len(calls') - 1), [op |-> WriteOp[f], ok |-> TRUE])
                 /\ Len(calls') > Len(calls)]_vars

(***************************************************************************)
(* C18.  Provisioning order: in every state reached from the empty state,  *)
(* buildNumber set implies versionNumber set and versionNumber set implies *)
(* actorId set; a build that was triggered was triggered on the Actor and  *)
(* the version number held in the state, a version the platform accepted   *)
(* for that Actor; and a run batch has been dispatched only with all three *)
(* fields set, the build number either read from the store or assigned     *)
(* after the wait for the build returned.                                  *)
(***************************************************************************)
InOrder(st) ==
    /\ st.buildNumber # NoVal => st.versionNumber # NoVal
    /\ st.versionNumber # NoVal => st.actorId # NoVal

WaitReturned == \E i \in 1..Len(calls) : calls[i] = [op |-> "waitForFinish", ok |-> TRUE]

C18_ProvisioningOrder ==
    /\ InOrder(state)
    /\ InOrder(loaded)
    /\ build # NoBuild =>
          /\ build.versionNumber # NoVal
          /\ build.versionNumber = state.versionNumber
          /\ build.actorId = state.actorId
          /\ \E k \in 1..Len(versions) :
                /\ versions[k].actorId = build.actorId
                /\ versions[k].versionNumber = build.versionNumber
    /\ Count("callRuns") > 0 =>
          /\ AllSet(state)
          /\ loaded.buildNumber # NoVal \/ (WaitReturned /\ state.buildNumber = build.buildNumber)

C18_Witness ==
    /\ restarts = 0
    /\ pc = "logs"
    /\ AllSet(state)
    /\ build.versionNumber = "0.0"
    /\ state.buildNumber = build.buildNumber
    /\ Ops = <<"create", "fetchManifest", "downloadZipTemplate", "version.update", "build",
               "waitForFinish", "callRuns">>

(***************************************************************************)
(* C19.  First marker line only: when a fetched log has a line holding     *)
(* `startup:`, the first such line alone decides.  If on it the marker is  *)
(* nowhere followed by optional white space and a digit, the process has   *)
(* died of MalformedTimingLine at that fetch with no sample recorded for   *)
(* the run, whatever the later lines hold; otherwise the sample recorded   *)
(* for the run is the number read on that line.                            *)
(***************************************************************************)
HoldsMarker(line) == \E k \in 1..Len(line) : HasAt(line, StartupMarker, k)

\* i is the first line of the log that holds the marker
IsFirstMarkerLine(lines, i) ==
    /\ i \in 1..Len(lines)
    /\ HoldsMarker(lines[i])
    /\ \A j \in 1..i - 1 : ~HoldsMarker(lines[j])

\* somewhere on the line the marker is followed by white space and then a digit
WellFormed(line) ==
    \E k \in 1..Len(line) : \E d \in k + Len(StartupMarker)..Len(line) :
        /\ HasAt(line, StartupMarker, k)
        /\ \A x \in k + Len(StartupMarker)..d - 1 : line[x] \in Spaces
        /\ line[d] \in Digits

JustFetched == LastOp = "log.get" /\ calls[Len(calls)].ok

C19_FirstMarkerLineOnly ==
    JustFetched =>
        \A i \in 1..Len(runLog.lines) :
            IsFirstMarkerLine(runLog.lines, i) =>
                IF WellFormed(runLog.lines[i])
                THEN /\ pc = "logs"
                     /\ Len(startupTimes) = runIdx - 1
                     /\ startupTimes[Len(startupTimes)] =
                            MatchNumber(runLog.lines[i], StartupMarker)
                     /\ runLog.lines = LogPlain => startupTimes[Len(startupTimes)] = Rat(10, 1)
                     /\ runLog.lines = LogDyn => startupTimes[Len(startupTimes)] = Rat(41, 2)
                ELSE /\ pc = "failed"
                     /\ error = "MalformedTimingLine"
                     /\ Len(startupTimes) = runIdx - 1
                     /\ Len(sink) = cfgIdx - 1

C19_Witness ==
    /\ JustFetched
    /\ runLog = LogOf(LogMalformed)
    /\ ~WellFormed(LogMalformed[1])
    /\ WellFormed(LogMalformed[2])
    /\ error = "MalformedTimingLine"
    /\ runIdx = 2
    /\ Len(startupTimes) = 1

(***************************************************************************)
(* C20.  Archive extraction: entries are read one at a time (a readEntry   *)
(* is outstanding only while no entry is being opened or streamed, and at  *)
(* most one entry is in work); a resolved promise delivers exactly one key *)
(* per text file entry of the archive, with its full content, and no key   *)
(* of a directory entry or of a binary entry; it is resolved only after    *)
(* every entry was emitted and every file read to its end; and after an    *)
(* error of openReadStream or of a stream the promise is rejected.         *)
(***************************************************************************)
IsDirectoryEntry(e) == EndsWithSlash(e.fileName)
IsBinaryEntry(e) ==
    ~IsDirectoryEntry(e) /\ \E c \in 1..Len(e.chunks) : \E b \in 1..Len(e.chunks[c]) :
                                e.chunks[c][b] \in InvalidBytes
IsTextEntry(e) == ~IsDirectoryEntry(e) /\ ~IsBinaryEntry(e)

Entries == {archive[i] : i \in 1..Len(archive)}

C20_OneAtATime == requested + Cardinality(opening) + Cardinality(streams) <= 1

C20_ResolvedAfterLastEntry ==
    promise = "resolved" =>
        /\ emitted = Len(archive)
        /\ opening = {}
        /\ streams = {}
        /\ \A e \in Entries : ~IsDirectoryEntry(e) => \E kv \in result : kv.name = e.fileName

C20_OpenErrorRejects == failure = "open" => promise = "rejected"

C20_StreamErrorRejects == failure = "stream" => promise = "rejected"

C20_KeysAreTheTextEntries ==
    promise = "resolved" =>
        /\ \A e \in Entries :
             IsTextEntry(e) =>
                 /\ [name |-> e.fileName, content |-> Concat(e.chunks)] \in result
                 /\ Cardinality({kv \in result : kv.name = e.fileName}) = 1
        /\ \A kv \in result : \E e \in Entries : IsTextEntry(e) /\ kv.name = e.fileName

C20_ArchiveExtraction ==
    /\ C20_OneAtATime
    /\ C20_ResolvedAfterLastEntry
    /\ C20_KeysAreTheTextEntries
    /\ C20_OpenErrorRejects
    /\ C20_StreamErrorRejects

====
